---- MODULE Spec2Model ----
(***************************************************************************)
(* SqueezeNet v1.0 composable (zoo/squeezenet/squeezenet_c.py).            *)
(*                                                                         *)
(* The program state is the class-level table SqueezeNet.groups, the list  *)
(* object a caller hands to the constructor, the instance attributes and   *)
(* the layer graph under construction.  A tensor is the index of the layer *)
(* that produced it.  A dict is a function from its keys; "**a, **b" is    *)
(* a @@ b.  The groups list is passed by reference: metaparameters carry   *)
(* the name of the list object ("class" or "caller"), heap holds the       *)
(* objects.  The dropout rate is written in percent (0.5 is 50).           *)
(***************************************************************************)
EXTENDS Integers, Sequences, FiniteSets, TLC

VARIABLES pc, entry, args, self, classGroups, callerList, groupsRef, given,
          layers, fires, x, err, trace, constructed

vars == <<pc, entry, args, self, classGroups, callerList, groupsRef, given,
          layers, fires, x, err, trace, constructed>>

-----------------------------------------------------------------------------
(* Bounds of the model *)

\* a caller's groups list has at most MaxGroups groups
MaxGroups == 2
\* ... and at most MaxEntries block entries over all its groups
MaxEntries == 3
\* n_classes ranges over 1..MaxClasses
MaxClasses == 2

-----------------------------------------------------------------------------
(* Class attributes *)

\* SqueezeNet.groups as the class body sets it
DefaultGroups ==
    << << [n_filters |-> 16], [n_filters |-> 16], [n_filters |-> 32] >>,
       << [n_filters |-> 32], [n_filters |-> 48], [n_filters |-> 48], [n_filters |-> 64] >>,
       << [n_filters |-> 64] >> >>

\* SqueezeNet.dropout = 0.5
ClassDropout == 50

\* SqueezeNet.init_weights
ClassInitWeights == "glorot_uniform"

\* Composable.reg, which SqueezeNet inherits (SqueezeNet.reg)
ClassReg == "None"

-----------------------------------------------------------------------------
(* Inputs *)

FilterChoices == {16, 32}

\* a block entry is a dict; the last one has no 'n_filters' key
BlockEntries == {[n_filters |-> f] : f \in FilterChoices} \cup {[filters |-> 16]}

RECURSIVE TablesOf(_, _)
\* the lists of exactly g groups holding at most k block entries in all
TablesOf(g, k) ==
    IF g = 0 THEN {<< >>}
    ELSE UNION { UNION { { <<grp>> \o t : t \in TablesOf(g - 1, k - n) }
                         : grp \in [1..n -> BlockEntries] }
                 : n \in 0..k }

CallerTables == UNION { TablesOf(g, MaxEntries) : g \in 0..MaxGroups }

InputShapes == { <<224, 224, 3>>, <<32, 16, 3>>, <<4, 4, 3>> }

InitChoices == {"glorot_uniform", "he_normal"}

RegChoices == {"l2(0.001)"}

DropoutChoices == {50, 20}

-----------------------------------------------------------------------------
(* The framework's layers, as far as shapes and wiring go *)

NoErr == [type |-> "none", origin |-> "none", line |-> 0]

Ok(g) == g.err.type = "none"

\* an exception leaves the call: nothing after it runs
Raise(g, type, origin, line) ==
    [g EXCEPT !.err = [type |-> type, origin |-> origin, line |-> line], !.x = 0]

Layer(op, in, shape) ==
    [op |-> op, in |-> in, shape |-> shape, filters |-> 0, kernel |-> 0,
     strides |-> 0, padding |-> "-", activation |-> "-", init |-> "-",
     reg |-> "-", rate |-> 0]

Emit(g, layer) ==
    [g EXCEPT !.layers = Append(g.layers, layer), !.x = Len(g.layers) + 1]

CeilDiv(a, b) == (a + b - 1) \div b

Input(shape) == Layer("Input", << >>, shape)

\* Conv2D(filters, (kernel, kernel), strides, padding='same', ...)(t)
Conv2D(g, t, filters, kernel, strides, activation, init, reg) ==
    IF ~Ok(g) THEN g
    ELSE LET s == g.layers[t].shape
         IN  Emit(g, [Layer("Conv2D", <<t>>,
                            <<CeilDiv(s[1], strides), CeilDiv(s[2], strides), filters>>)
                      EXCEPT !.filters = filters, !.kernel = kernel,
                             !.strides = strides, !.padding = "same",
                             !.activation = activation, !.init = init, !.reg = reg])

\* MaxPooling2D(pool, strides)(t), padding 'valid': the framework refuses a
\* window larger than the input
MaxPooling2D(g, t, pool, strides) ==
    IF ~Ok(g) THEN g
    ELSE LET s == g.layers[t].shape
         IN  IF s[1] < pool \/ s[2] < pool
             THEN Raise(g, "ValueError", "framework", 0)
             ELSE Emit(g, [Layer("MaxPooling2D", <<t>>,
                                 <<(s[1] - pool) \div strides + 1,
                                   (s[2] - pool) \div strides + 1, s[3]>>)
                           EXCEPT !.kernel = pool, !.strides = strides,
                                  !.padding = "valid"])

\* Composable.ReLU(t)
ReLU(g, t) ==
    IF ~Ok(g) THEN g
    ELSE Emit(g, Layer("ReLU", <<t>>, g.layers[t].shape))

\* Concatenate()([a, b])
Concatenate(g, a, b) ==
    IF ~Ok(g) THEN g
    ELSE LET sa == g.layers[a].shape
             sb == g.layers[b].shape
         IN  IF sa[1] # sb[1] \/ sa[2] # sb[2]
             THEN Raise(g, "ValueError", "framework", 0)
             ELSE Emit(g, Layer("Concatenate", <<a, b>>, <<sa[1], sa[2], sa[3] + sb[3]>>))

\* Dropout(rate)(t)
Dropout(g, t, rate) ==
    IF ~Ok(g) THEN g
    ELSE Emit(g, [Layer("Dropout", <<t>>, g.layers[t].shape) EXCEPT !.rate = rate])

\* GlobalAveragePooling2D()(t)
GlobalAveragePooling2D(g, t) ==
    IF ~Ok(g) THEN g
    ELSE Emit(g, Layer("GlobalAveragePooling2D", <<t>>, <<g.layers[t].shape[3]>>))

\* Activation(fn)(t)
Activation(g, t, fn) ==
    IF ~Ok(g) THEN g
    ELSE Emit(g, [Layer("Activation", <<t>>, g.layers[t].shape) EXCEPT !.activation = fn])

-----------------------------------------------------------------------------
(* SqueezeNet *)

\* Composable.__init__(init_weights, reg, relu): keeps the initializer on the instance
ComposableInit(obj, init_weights) == [obj EXCEPT !.init_weights = init_weights]

\* "v = e; rest": e is evaluated once and rest runs with its value
Let(e, rest(_)) == CHOOSE r \in { rest(v) : v \in {e} } : TRUE

\* SqueezeNet.stem(inputs, reg=...)
stem(obj, g, inputs, metaparameters) ==
    LET reg == metaparameters.reg
    IN  Let(Conv2D(g, inputs, 96, 7, 2, "-", obj.init_weights, reg), LAMBDA c :
        Let(ReLU(c, c.x), LAMBDA r :
        MaxPooling2D(r, r.x, 3, 2)))

\* fire_block with the 3x3 expand convolution wired to the block's input
\* instead of the squeeze output
fire_block_expand_on_input(g, t, init_weights, metaparameters) ==
    IF ~Ok(g) THEN g
    ELSE IF "n_filters" \notin DOMAIN metaparameters
    THEN Raise(g, "KeyError", "file", 136)
    ELSE LET n_filters == metaparameters.n_filters
             reg  == IF "reg" \in DOMAIN metaparameters THEN metaparameters.reg ELSE ClassReg
             init == IF init_weights = "None" THEN ClassInitWeights ELSE init_weights
         IN  Let(Conv2D(g, t, n_filters, 1, 1, "relu", init, reg), LAMBDA squeeze :
             Let(Conv2D(squeeze, squeeze.x, n_filters * 4, 1, 1, "-", init, reg), LAMBDA conv1x1 :
             Let(ReLU(conv1x1, conv1x1.x), LAMBDA expand1x1 :
             Let(Conv2D(expand1x1, t, n_filters * 4, 3, 1, "-", init, reg), LAMBDA conv3x3 :
             Let(ReLU(conv3x3, conv3x3.x), LAMBDA expand3x3 :
             Let(Concatenate(expand3x3, expand1x1.x, expand3x3.x), LAMBDA out :
             IF Ok(out)
             THEN [out EXCEPT !.fires = Append(out.fires,
                      [x |-> t, n_filters |-> n_filters, squeeze |-> squeeze.x, ret |-> out.x])]
             ELSE out))))))

\* fire_block reading n_filters with a default, metaparameters.get('n_filters', 16)
fire_block_default_filters(g, t, init_weights, metaparameters) ==
    IF ~Ok(g) THEN g
    ELSE LET n_filters == IF "n_filters" \in DOMAIN metaparameters
                          THEN metaparameters.n_filters ELSE 16
             reg  == IF "reg" \in DOMAIN metaparameters THEN metaparameters.reg ELSE ClassReg
             init == IF init_weights = "None" THEN ClassInitWeights ELSE init_weights
         IN  Let(Conv2D(g, t, n_filters, 1, 1, "relu", init, reg), LAMBDA squeeze :
             Let(Conv2D(squeeze, squeeze.x, n_filters * 4, 1, 1, "-", init, reg), LAMBDA conv1x1 :
             Let(ReLU(conv1x1, conv1x1.x), LAMBDA expand1x1 :
             Let(Conv2D(expand1x1, squeeze.x, n_filters * 4, 3, 1, "-", init, reg), LAMBDA conv3x3 :
             Let(ReLU(conv3x3, conv3x3.x), LAMBDA expand3x3 :
             Let(Concatenate(expand3x3, expand1x1.x, expand3x3.x), LAMBDA out :
             IF Ok(out)
             THEN [out EXCEPT !.fires = Append(out.fires,
                      [x |-> t, n_filters |-> n_filters, squeeze |-> squeeze.x, ret |-> out.x])]
             ELSE out))))))

\* SqueezeNet.fire_block(x, init_weights=None, **metaparameters)
fire_block(g, t, init_weights, metaparameters) ==
    IF ~Ok(g) THEN g
    ELSE IF "n_filters" \notin DOMAIN metaparameters
    THEN Raise(g, "KeyError", "file", 136)
    ELSE LET n_filters == metaparameters.n_filters
             reg  == IF "reg" \in DOMAIN metaparameters THEN metaparameters.reg ELSE ClassReg
             init == IF init_weights = "None" THEN ClassInitWeights ELSE init_weights
         IN  Let(Conv2D(g, t, n_filters, 1, 1, "relu", init, reg), LAMBDA squeeze :
             Let(Conv2D(squeeze, squeeze.x, n_filters * 4, 1, 1, "-", init, reg), LAMBDA conv1x1 :
             Let(ReLU(conv1x1, conv1x1.x), LAMBDA expand1x1 :
             Let(Conv2D(expand1x1, squeeze.x, n_filters * 4, 3, 1, "-", init, reg), LAMBDA conv3x3 :
             Let(ReLU(conv3x3, conv3x3.x), LAMBDA expand3x3 :
             Let(Concatenate(expand3x3, expand1x1.x, expand3x3.x), LAMBDA out :
             IF Ok(out)
             THEN [out EXCEPT !.fires = Append(out.fires,
                      [x |-> t, n_filters |-> n_filters, squeeze |-> squeeze.x, ret |-> out.x])]
             ELSE out))))))

RECURSIVE group_blocks(_, _, _, _, _)
\* the loop "for block in blocks" of group, from the i-th block on
group_blocks(g, t, blocks, i, kw) ==
    IF ~Ok(g) THEN g
    ELSE IF i > Len(blocks) THEN [g EXCEPT !.x = t]
    ELSE Let(fire_block(g, t, kw.init_weights, blocks[i] @@ kw.metaparameters), LAMBDA b :
         group_blocks(b, b.x, blocks, i + 1, kw))

\* group that pools before its fire blocks instead of after them
group_pool_first(g, t, init_weights, metaparameters) ==
    LET blocks == metaparameters.blocks
        init   == IF init_weights = "None" THEN ClassInitWeights ELSE init_weights
    IN  Let(MaxPooling2D(g, t, 3, 2), LAMBDA p :
        group_blocks(p, p.x, blocks, 1,
                     [init_weights |-> init, metaparameters |-> metaparameters]))

\* SqueezeNet.group(x, init_weights=None, **metaparameters)
group(g, t, init_weights, metaparameters) ==
    LET blocks == metaparameters.blocks
        init   == IF init_weights = "None" THEN ClassInitWeights ELSE init_weights
    IN  Let(group_blocks(g, t, blocks, 1,
                         [init_weights |-> init, metaparameters |-> metaparameters]), LAMBDA b :
        MaxPooling2D(b, b.x, 3, 2))

RECURSIVE learner_groups(_, _, _, _, _)
\* the loop "for group in groups" of learner, from the i-th group on
learner_groups(g, t, groups, i, metaparameters) ==
    IF ~Ok(g) THEN g
    ELSE IF i > Len(groups) THEN [g EXCEPT !.x = t]
    ELSE Let(group(g, t, "None", [blocks |-> groups[i]] @@ metaparameters), LAMBDA b :
         learner_groups(b, b.x, groups, i + 1, metaparameters))

\* "last = groups.pop()" on the list object named ref
pop(heap, ref) == [heap EXCEPT ![ref] = SubSeq(heap[ref], 1, Len(heap[ref]) - 1)]

\* SqueezeNet.learner(x, **metaparameters); heap holds the list objects and
\* metaparameters.groups names the one passed.  The result is the graph and
\* the heap as the call leaves them.
learner(g, t, metaparameters, heap) ==
    LET ref     == metaparameters.groups
        dropout == IF "dropout" \in DOMAIN metaparameters
                   THEN metaparameters.dropout ELSE ClassDropout
    IN  IF heap[ref] = << >>
        THEN [g |-> Raise(g, "IndexError", "file", 97), heap |-> heap]
        ELSE LET last   == heap[ref][Len(heap[ref])]
                 popped == pop(heap, ref)
             IN  Let(learner_groups(g, t, popped[ref], 1, metaparameters), LAMBDA grown :
                 Let(IF ~Ok(grown) THEN grown
                     ELSE IF last = << >> THEN Raise(grown, "IndexError", "file", 104)
                     ELSE fire_block(grown, grown.x, "None", last[1] @@ metaparameters),
                     LAMBDA fired :
                 [g |-> Dropout(fired, fired.x, dropout), heap |-> popped]))

\* classifier whose convolution has the default 1000 filters, whatever n_classes
classifier_1000_filters(obj, g, t, n_classes, metaparameters) ==
    LET reg == metaparameters.reg
    IN  Let(Conv2D(g, t, 1000, 1, 1, "-", obj.init_weights, reg), LAMBDA conv :
        Let(ReLU(conv, conv.x), LAMBDA relu :
        Let(GlobalAveragePooling2D(relu, relu.x), LAMBDA gap :
        Let(Activation(gap, gap.x, "softmax"), LAMBDA outputs :
        [g |-> outputs,
         obj |-> [obj EXCEPT !.encoding = t, !.probabilities = gap.x,
                             !.softmax = outputs.x]]))))

\* SqueezeNet.classifier(x, n_classes, reg=...); the result is the graph and
\* the instance with its saved layers
classifier(obj, g, t, n_classes, metaparameters) ==
    LET reg == metaparameters.reg
    IN  Let(Conv2D(g, t, n_classes, 1, 1, "-", obj.init_weights, reg), LAMBDA conv :
        Let(ReLU(conv, conv.x), LAMBDA relu :
        Let(GlobalAveragePooling2D(relu, relu.x), LAMBDA gap :
        Let(Activation(gap, gap.x, "softmax"), LAMBDA outputs :
        [g |-> outputs,
         obj |-> [obj EXCEPT !.encoding = t, !.probabilities = gap.x,
                             !.softmax = outputs.x]]))))

-----------------------------------------------------------------------------
(* The state machine: one call at a time, the constructor stage by stage *)

NoSelf == [init_weights |-> "-", encoding |-> 0, probabilities |-> 0,
           softmax |-> 0, model |-> <<0, 0>>]

NoArgs == [groups |-> "-"]

Graph == [layers |-> layers, fires |-> fires, err |-> NoErr, x |-> x]

Heap == [class |-> classGroups, caller |-> callerList]

Init ==
    /\ pc = "idle"
    /\ entry = "-"
    /\ args = NoArgs
    /\ self = NoSelf
    /\ classGroups = DefaultGroups
    /\ callerList = << >>
    /\ groupsRef = "-"
    /\ given = << >>
    /\ layers = << >>
    /\ fires = << >>
    /\ x = 0
    /\ err = NoErr
    /\ trace = << >>
    /\ constructed = FALSE

\* SqueezeNet(groups, dropout, input_shape, n_classes, init_weights, reg):
\* __init__ up to the Input tensor
New ==
    /\ pc = "idle"
    /\ \E sel \in {"None", "list"}, dropout \in DropoutChoices,
          input_shape \in InputShapes, n_classes \in 1..MaxClasses,
          init_weights \in InitChoices, reg \in RegChoices :
         \E groups \in IF sel = "None" THEN {<< >>} ELSE CallerTables :
            /\ args' = [groups |-> sel, dropout |-> dropout, input_shape |-> input_shape,
                        n_classes |-> n_classes, init_weights |-> init_weights, reg |-> reg]
            /\ self' = ComposableInit(NoSelf, init_weights)
            /\ callerList' = groups
            /\ groupsRef' = IF sel = "None" THEN "class" ELSE "caller"
            /\ given' = IF sel = "None" THEN classGroups ELSE groups
            /\ layers' = << Input(input_shape) >>
    /\ entry' = "__init__"
    /\ fires' = << >>
    /\ x' = 1
    /\ err' = NoErr
    /\ trace' = << >>
    /\ pc' = "stem"
    /\ UNCHANGED <<classGroups, constructed>>

\* the constructor going from stem straight to classifier
StemThenClassifier ==
    /\ pc = "stem"
    /\ \E g \in {stem(self, Graph, 1, [reg |-> args.reg])} :
           /\ layers' = g.layers
           /\ fires' = g.fires
           /\ x' = g.x
           /\ err' = g.err
           /\ trace' = Append(trace, [fn |-> "stem", arg |-> 1, ret |-> g.x])
           /\ pc' = IF Ok(g) THEN "classifier" ELSE "raised"
    /\ UNCHANGED <<entry, args, self, classGroups, callerList, groupsRef, given, constructed>>

\* x = self.stem(inputs, reg=reg)
Stem ==
    /\ pc = "stem"
    /\ \E g \in {stem(self, Graph, 1, [reg |-> args.reg])} :
           /\ layers' = g.layers
           /\ fires' = g.fires
           /\ x' = g.x
           /\ err' = g.err
           /\ trace' = Append(trace, [fn |-> "stem", arg |-> 1, ret |-> g.x])
           /\ pc' = IF Ok(g) THEN "learner" ELSE "raised"
    /\ UNCHANGED <<entry, args, self, classGroups, callerList, groupsRef, given, constructed>>

\* the keyword arguments learner is called with
LearnerKw ==
    IF entry = "__init__"
    THEN [groups |-> groupsRef, dropout |-> args.dropout, reg |-> args.reg]
    ELSE args.metaparameters

\* x = self.learner(x, groups=groups, dropout=dropout, reg=reg), or a
\* caller's own call of learner
Learner ==
    /\ pc = "learner"
    /\ \E r \in {learner(Graph, x, LearnerKw, Heap)} :
           /\ layers' = r.g.layers
           /\ fires' = r.g.fires
           /\ x' = r.g.x
           /\ err' = r.g.err
           /\ classGroups' = r.heap.class
           /\ callerList' = r.heap.caller
           /\ trace' = Append(trace, [fn |-> "learner", arg |-> x, ret |-> r.g.x])
           /\ pc' = IF ~Ok(r.g) THEN "raised"
                    ELSE IF entry = "__init__" THEN "classifier" ELSE "done"
    /\ UNCHANGED <<entry, args, self, groupsRef, given, constructed>>

\* outputs = self.classifier(x, n_classes, reg=reg)
Classifier ==
    /\ pc = "classifier"
    /\ \E r \in {classifier(self, Graph, x, args.n_classes, [reg |-> args.reg])} :
           /\ layers' = r.g.layers
           /\ fires' = r.g.fires
           /\ x' = r.g.x
           /\ err' = r.g.err
           /\ self' = r.obj
           /\ trace' = Append(trace, [fn |-> "classifier", arg |-> x, ret |-> r.g.x])
           /\ pc' = IF Ok(r.g) THEN "model" ELSE "raised"
    /\ UNCHANGED <<entry, args, classGroups, callerList, groupsRef, given, constructed>>

\* self._model = Model(inputs, outputs)
MakeModel ==
    /\ pc = "model"
    /\ self' = [self EXCEPT !.model = <<1, x>>]
    /\ trace' = Append(trace, [fn |-> "Model", arg |-> 1, ret |-> x])
    /\ constructed' = TRUE
    /\ pc' = "done"
    /\ UNCHANGED <<entry, args, classGroups, callerList, groupsRef, given,
                   layers, fires, x, err>>

\* a caller that holds an instance calls learner itself, on an Input
\* tensor, with its own list and with or without a dropout rate
CallLearner ==
    /\ pc = "idle"
    /\ constructed
    /\ \E groups \in CallerTables, input_shape \in InputShapes, reg \in RegChoices,
          kw \in {[dropout |-> d] : d \in DropoutChoices} \cup {[relu |-> "None"]} :
            /\ args' = [groups |-> "list", input_shape |-> input_shape,
                        metaparameters |-> [groups |-> "caller", reg |-> reg] @@ kw]
            /\ callerList' = groups
            /\ given' = groups
            /\ layers' = << Input(input_shape) >>
    /\ entry' = "learner"
    /\ groupsRef' = "caller"
    /\ fires' = << >>
    /\ x' = 1
    /\ err' = NoErr
    /\ trace' = << >>
    /\ pc' = "learner"
    /\ UNCHANGED <<self, classGroups, constructed>>

\* the call is over (it returned or raised); the caller drops its list and the graph
Return ==
    /\ pc \in {"done", "raised"}
    /\ pc' = "idle"
    /\ entry' = "-"
    /\ args' = NoArgs
    /\ self' = NoSelf
    /\ callerList' = << >>
    /\ groupsRef' = "-"
    /\ given' = << >>
    /\ layers' = << >>
    /\ fires' = << >>
    /\ x' = 0
    /\ err' = NoErr
    /\ trace' = << >>
    /\ UNCHANGED <<classGroups, constructed>>

Next == New \/ Stem \/ Learner \/ Classifier \/ MakeModel \/ CallLearner \/ Return

Spec == Init /\ [][Next]_vars

-----------------------------------------------------------------------------
(* What the properties below speak of *)

\* where the call of learner stands in trace
LearnerAt == IF entry = "__init__" THEN 2 ELSE 1

\* learner was called (it returned or raised)
LearnerRan == Len(trace) >= LearnerAt /\ trace[LearnerAt].fn = "learner"

\* learner returned a tensor
LearnerReturned == LearnerRan /\ trace[LearnerAt].ret # 0

\* the ops of the layers learner added, in the order it added them
LearnerOps ==
    [i \in 1..(trace[LearnerAt].ret - trace[LearnerAt].arg) |->
        layers[trace[LearnerAt].arg + i].op]

\* the layers of the graph that learner added
LearnerSpan == (trace[LearnerAt].arg + 1)..trace[LearnerAt].ret

\* the list object the call was given, as it is now
GroupsNow == IF groupsRef = "class" THEN classGroups ELSE callerList

\* the dropout rate the call of learner was given, SqueezeNet.dropout when none
RateGiven ==
    IF entry = "__init__" THEN args.dropout
    ELSE IF "dropout" \in DOMAIN args.metaparameters
         THEN args.metaparameters.dropout ELSE ClassDropout

FireOps == <<"Conv2D", "Conv2D", "ReLU", "Conv2D", "ReLU", "Concatenate">>

RECURSIVE Repeat(_, _)
Repeat(s, n) == IF n = 0 THEN << >> ELSE s \o Repeat(s, n - 1)

RECURSIVE FrontOps(_, _)
\* groups i .. Len(t) - 1 of table t: the fire blocks of each, then its pooling
FrontOps(t, i) ==
    IF i >= Len(t) THEN << >>
    ELSE Repeat(FireOps, Len(t[i])) \o <<"MaxPooling2D">> \o FrontOps(t, i + 1)

\* the layer sequence of a learner over table t: every group but the last
\* with its pooling, the final fire block, the dropout
ExpectedOps(t) == FrontOps(t, 1) \o FireOps \o <<"Dropout">>

RECURSIVE Flatten(_, _)
\* the block entries of groups i .. Len(t) of table t, in table order
Flatten(t, i) == IF i > Len(t) THEN << >> ELSE t[i] \o Flatten(t, i + 1)

\* the block entries of table t that learner reads: those of every group
\* but the last, and the first one of the last group
UsedEntries(t) ==
    IF t = << >> THEN << >>
    ELSE Flatten(SubSeq(t, 1, Len(t) - 1), 1)
         \o (IF t[Len(t)] = << >> THEN << >> ELSE << t[Len(t)][1] >>)

HasFilters(entries) == \A i \in 1..Len(entries) : "n_filters" \in DOMAIN entries[i]

\* the n_filters of the fire blocks built so far
FireFilters == [k \in 1..Len(fires) |-> fires[k].n_filters]

ConvIs(l, in, filters, kernel) ==
    /\ l.op = "Conv2D" /\ l.in = in /\ l.filters = filters
    /\ l.kernel = kernel /\ l.strides = 1 /\ l.padding = "same"

-----------------------------------------------------------------------------
(* C1 *)

\* C1: once classifier has returned, the tensor it returned (the Model's
\* output) has shape (n_classes,): the classifier's 1x1 convolution on the
\* encoding has n_classes filters and global average pooling leaves one
\* value per filter, whatever the groups table and the spatial size of the
\* encoding.
C1_OutputHasNClasses ==
    (entry = "__init__" /\ pc \in {"model", "done"}) =>
        /\ layers[x].shape = << args.n_classes >>
        /\ self.softmax = x
        /\ ConvIs(layers[self.encoding + 1], << self.encoding >>, args.n_classes, 1)
        /\ layers[self.probabilities].op = "GlobalAveragePooling2D"
        /\ layers[self.probabilities].shape = << args.n_classes >>
        /\ (pc = "done" => self.model = <<1, x>>)

\* a finished model of 2 classes over a caller's table whose encoding is
\* wider than 1x1 and has another number of channels than classes
C1_Witness ==
    /\ entry = "__init__" /\ pc = "done" /\ args.groups = "list"
    /\ args.n_classes = 2
    /\ layers[self.encoding].shape[1] > 1
    /\ layers[self.encoding].shape[3] # 2

-----------------------------------------------------------------------------
(* C3 *)

Stages == <<"stem", "learner", "classifier", "Model">>

\* C3: the constructor's calls are, in this order and each at most once,
\* stem on the Input tensor, learner on stem's result, classifier on
\* learner's result and Model on (Input, classifier's result); a stage is
\* called only after the one before it returned a tensor, and a finished
\* construction made all four calls.
C3_LinearConstruction ==
    entry = "__init__" =>
        /\ Len(trace) <= 4
        /\ \A i \in 1..Len(trace) : trace[i].fn = Stages[i]
        /\ Len(trace) >= 1 => trace[1].arg = 1 /\ layers[1].op = "Input"
        /\ \A i \in 2..Len(trace) :
              /\ trace[i - 1].ret # 0
              /\ i <= 3 => trace[i].arg = trace[i - 1].ret
        /\ Len(trace) = 4 => trace[4].arg = 1 /\ trace[4].ret = trace[3].ret
        /\ (pc = "done" <=> Len(trace) = 4)
        /\ (self.model # <<0, 0>> <=> Len(trace) = 4)

C3_Witness ==
    /\ entry = "__init__" /\ pc = "done" /\ Len(trace) = 4
    /\ trace[2].ret > trace[2].arg /\ trace[3].ret > trace[3].arg

-----------------------------------------------------------------------------
(* C4 *)

\* C4: in a finished construction every convolution of the graph has the
\* constructor's init_weights as its kernel initializer.
C4_InitWeightsEverywhere ==
    (entry = "__init__" /\ pc = "done") =>
        \A i \in 1..Len(layers) :
            layers[i].op = "Conv2D" => layers[i].init = args.init_weights

-----------------------------------------------------------------------------
(* C5 *)

\* C5: for a non-empty table of non-empty groups of {'n_filters': k}
\* entries, learner builds one fire block per entry, in table order and
\* with that entry's n_filters.
C5_OneFireBlockPerEntry ==
    (/\ LearnerReturned
     /\ given # << >>
     /\ \A i \in 1..Len(given) : given[i] # << >>
     /\ HasFilters(Flatten(given, 1))) =>
        FireFilters = [k \in 1..Len(Flatten(given, 1)) |-> Flatten(given, 1)[k].n_filters]

-----------------------------------------------------------------------------
(* C6 *)

\* C6 as stated: every error of a construction is raised by the framework.
C6_OnlyFrameworkErrors == err.type # "none" => err.origin = "framework"

\* C6, amended: this file's own statements raise on three configurations,
\* IndexError at "groups.pop()" for an empty table, IndexError at "last[0]"
\* for an empty last group, KeyError at "metaparameters['n_filters']" for
\* an entry it reads that has no 'n_filters'; it raises nothing else, and
\* it repairs none of them: learner returns only for a table without them.
C6_FileRaisesAndNeverRepairs ==
    /\ err.origin = "file" =>
          /\ pc = "raised" /\ LearnerRan
          /\ \/ err.type = "IndexError" /\ err.line = 97 /\ given = << >>
             \/ /\ err.type = "IndexError" /\ err.line = 104
                /\ given # << >> /\ given[Len(given)] = << >>
                /\ HasFilters(UsedEntries(given))
             \/ /\ err.type = "KeyError" /\ err.line = 136
                /\ ~HasFilters(UsedEntries(given))
    /\ (LearnerRan /\ given = << >>) =>
          err = [type |-> "IndexError", origin |-> "file", line |-> 97]
    /\ LearnerReturned =>
          /\ given # << >> /\ given[Len(given)] # << >>
          /\ HasFilters(UsedEntries(given))

\* each of the three has happened: here the KeyError, after the pop
C6_Witness ==
    /\ pc = "raised" /\ err.type = "KeyError" /\ err.origin = "file"
    /\ Len(given) = 2 /\ Len(GroupsNow) = 1

-----------------------------------------------------------------------------
(* C7 *)

\* C7: every construction with groups omitted succeeds (on the default
\* input shape) and builds the topology of the first one: 3 and 4 fire
\* blocks, each group pooled, then the fire block of 64 filters.
C7_DefaultConstructionsAgree ==
    (/\ entry = "__init__" /\ args.groups = "None"
     /\ args.input_shape = <<224, 224, 3>> /\ LearnerRan) =>
        /\ LearnerReturned
        /\ FireFilters = <<16, 16, 32, 32, 48, 48, 64, 64>>
        /\ LearnerOps = ExpectedOps(DefaultGroups)

-----------------------------------------------------------------------------
(* C8 *)

\* C8: when learner (and so the constructor) is over, the table it was
\* given holds the groups and entries it held at the call.
C8_GroupsUnchanged == LearnerReturned => GroupsNow = given

-----------------------------------------------------------------------------
(* C9 *)

-----------------------------------------------------------------------------
(* C10 *)

PoolsOf == { i \in LearnerSpan : layers[i].op = "MaxPooling2D" }

DropoutsOf == { i \in LearnerSpan : layers[i].op = "Dropout" }

\* C10 as stated: the learner has G - 1 poolings, each directly after a
\* fire block, and one Dropout of the given rate as its last layer.
C10_PoolAfterFireBlock ==
    LearnerReturned =>
        /\ Cardinality(PoolsOf) = Len(given) - 1
        /\ \A i \in PoolsOf : layers[layers[i].in[1]].op = "Concatenate"
        /\ DropoutsOf = { trace[LearnerAt].ret }

\* C10, amended: the learner's layers are, group by group for the first
\* G - 1 groups, the group's fire blocks and then one 3x3 stride-2 pooling
\* (directly after the group's last fire block when it has one; a group
\* without blocks still gets its pooling), then the final fire block with
\* no pooling after it, then one Dropout of the given rate, the last layer.
C10_DelayedPoolAndDropout ==
    LearnerReturned =>
        /\ LearnerOps = ExpectedOps(given)
        /\ Cardinality(PoolsOf) = Len(given) - 1
        /\ \A i \in PoolsOf : layers[i].kernel = 3 /\ layers[i].strides = 2
        /\ DropoutsOf = { trace[LearnerAt].ret }
        /\ layers[trace[LearnerAt].ret].rate = RateGiven
        /\ layers[trace[LearnerAt].ret - 1].op = "Concatenate"

\* a learner of two pooled groups, the second of several blocks, called
\* without a dropout rate
C10_Witness ==
    /\ LearnerReturned /\ entry = "learner"
    /\ "dropout" \notin DOMAIN args.metaparameters
    /\ Len(given) = 2 /\ Len(given[1]) = 2
    /\ layers[trace[LearnerAt].ret].rate = 50

====
